---- MODULE Spec2Model ----
(***************************************************************************)
(* Model of builtin/add--helper.c: "git add-interactive--helper --status". *)
(* The command reads the configuration (add_i_config), parses its options, *)
(* and for --status runs print_modified: two diff passes feed              *)
(* collect_changes_cb, which merges the per-path counts into file_map, and *)
(* the map is then sorted by name and printed as a table.                  *)
(*                                                                         *)
(* File names are sequences of bytes (0..255), as strcmp and strhash see   *)
(* them.  Printed text is modelled by TLA+ strings; a printed line is the  *)
(* sequence of the pieces printf wrote, in the order it wrote them.        *)
(***************************************************************************)
EXTENDS Integers, Sequences, FiniteSets, Bags, TLC

VARIABLES
    pc,            \* position of the single thread of control
    config,        \* configuration entries git_config has still to deliver
    argv,          \* command line
    use_color,     \* static int use_color
    colors,        \* static char colors[][COLOR_MAXLEN], indexed 0..3
    mode,          \* enum cmd_mode mode
    header_color,  \* print_modified: const char *header_color
    phase,         \* s.phase
    reference,     \* s.reference
    file_map,      \* s.file_map: the bag of entries the hashmap holds
    out,           \* lines written to stdout
    errout,        \* messages written to stderr
    exit_status,   \* process exit status, NoExit while running
    cache,         \* outcome of read_cache(): "unread", "ok" or "failed"
    seen,          \* history: last report of each path in each diff pass
    writes,        \* history: <<pass, field>> for every delta written
    overwrote,     \* history: passes that reported a path again, with other counts
    delivered,     \* history: number of reports the diff engine has delivered
    head           \* outcome of get_sha1("HEAD"): "unasked", "resolved" or "missing"

vars == <<pc, config, argv, use_color, colors, mode, header_color, phase,
          reference, file_map, out, errout, exit_status, cache, seen, writes,
          overwrote, delivered, head>>

----------------------------------------------------------------------------
(* Bounds of the model *)

\* reports delivered so far in the run, both passes together, plus the pairs
\* of the queue that is handed over
MaxEvents == 3

MaxConfigEntries == 1

----------------------------------------------------------------------------
(* enum collection_phase, enum color_add_i, enum cmd_mode *)

WORKTREE == 0

INDEX == 1

COLOR_PROMPT == 0

COLOR_HEADER == 1

COLOR_HELP == 2

COLOR_ERROR == 3

DEFAULT == 0

STATUS == 1

HEADER_INDENT == "      "

NULL == "<NULL>"

NoExit == "running"

----------------------------------------------------------------------------
(* Text helpers: C strings of the configuration are TLA+ strings *)

Char(s, i) == SubSeq(s, i, i)

UpperCase == "ABCDEFGHIJKLMNOPQRSTUVWXYZ"

LowerCase == "abcdefghijklmnopqrstuvwxyz"

tolower(c) ==
    IF \E i \in 1..26 : Char(UpperCase, i) = c
    THEN Char(LowerCase, CHOOSE i \in 1..26 : Char(UpperCase, i) = c)
    ELSE c

Digits == "0123456789"

\* %ju / %d: the decimal digits of a non-negative number
RECURSIVE Dec(_)
Dec(n) == IF n < 10 THEN Char(Digits, n + 1)
          ELSE Dec(n \div 10) \o Char(Digits, (n % 10) + 1)

\* strcasecmp(a, b): 0 when the strings are equal ignoring case, else non-zero
strcasecmp(a, b) ==
    IF Len(a) = Len(b)
       /\ \A i \in 1..Len(a) : tolower(Char(a, i)) = tolower(Char(b, i))
    THEN 0 ELSE 1

\* skip_prefix(str, prefix, &out): whether str starts with prefix, and the rest
skip_prefix(str, prefix) ==
    IF Len(str) >= Len(prefix) /\ SubSeq(str, 1, Len(prefix)) = prefix
    THEN [ok |-> TRUE, rest |-> SubSeq(str, Len(prefix) + 1, Len(str))]
    ELSE [ok |-> FALSE, rest |-> ""]

----------------------------------------------------------------------------
(* Colors and configuration *)

GIT_COLOR_BOLD_BLUE == "ESC[1;34m"

GIT_COLOR_BOLD == "ESC[1m"

GIT_COLOR_BOLD_RED == "ESC[1;31m"

GIT_COLOR_RESET == "ESC[m"

GIT_COLOR_AUTO == 2

\* static char colors[][COLOR_MAXLEN]
colors_init ==
    [ix \in 0..3 |->
        CASE ix = COLOR_PROMPT -> GIT_COLOR_BOLD_BLUE
          [] ix = COLOR_HEADER -> GIT_COLOR_BOLD
          [] ix = COLOR_HELP   -> GIT_COLOR_BOLD_RED
          [] ix = COLOR_ERROR  -> GIT_COLOR_BOLD_RED]

\* config.c, git_parse_maybe_bool_text: 1 for a missing value and for true,
\* yes, on; 0 for the empty value and for false, no, off; -1 otherwise
git_parse_maybe_bool_text(value) ==
    IF value = NULL THEN 1
    ELSE IF value = "" THEN 0
    ELSE IF \E w \in {"true", "yes", "on"} : strcasecmp(value, w) = 0 THEN 1
    ELSE IF \E w \in {"false", "no", "off"} : strcasecmp(value, w) = 0 THEN 0
    ELSE -1

INT_MAX == 2147483647

\* the character at 1-based position i of a C string, "" at its terminator
CharAt(s, i) == IF 1 <= i /\ i <= Len(s) THEN SubSeq(s, i, i) ELSE ""

\* the value of the character c as a digit, 16 when it is no digit
DigitValue(c) ==
    CASE c = "0" -> 0 [] c = "1" -> 1 [] c = "2" -> 2 [] c = "3" -> 3
      [] c = "4" -> 4 [] c = "5" -> 5 [] c = "6" -> 6 [] c = "7" -> 7
      [] c = "8" -> 8 [] c = "9" -> 9
      [] c \in {"a", "A"} -> 10 [] c \in {"b", "B"} -> 11
      [] c \in {"c", "C"} -> 12 [] c \in {"d", "D"} -> 13
      [] c \in {"e", "E"} -> 14 [] c \in {"f", "F"} -> 15
      [] OTHER -> 16

\* the position of the first character of s from i on that is no white space
\* of the C library (space, \t, \n, \v, \f, \r), which strtoimax and strtol skip
RECURSIVE SkipSpace(_, _)
SkipSpace(s, i) ==
    IF CharAt(s, i) \in {" ", "\t", "\n", "", "\f", "\r"}
    THEN SkipSpace(s, i + 1) ELSE i

\* one more digit d in the given base after the magnitude n; -1 once the
\* magnitude has passed INT_MAX
next_magnitude(n, d, base) ==
    IF n < 0 \/ n > (INT_MAX - d) \div base THEN -1 ELSE n * base + d

\* the digits of strtoimax from position i in the given base, n being the
\* magnitude read so far: the magnitude and the position after the last digit
RECURSIVE strtoimax_digits(_, _, _, _)
strtoimax_digits(s, i, base, n) ==
    IF DigitValue(CharAt(s, i)) < base
    THEN strtoimax_digits(s, i + 1, base,
                          next_magnitude(n, DigitValue(CharAt(s, i)), base))
    ELSE [n |-> n, end |-> i]

\* the result of strtoimax when the digits r were read from position from:
\* the magnitude and the rest of the string, the whole string when there
\* was no digit
strtoimax_result(s, from, r) ==
    IF r.end = from THEN [n |-> 0, rest |-> s]
    ELSE [n |-> r.n, rest |-> SubSeq(s, r.end, Len(s))]

\* strtoimax after white space and sign, at position i: the base from the
\* prefix (0x hexadecimal, 0 octal, else decimal), then the digits
strtoimax_number(s, i) ==
    IF /\ i + 2 <= Len(s)
       /\ SubSeq(s, i, i + 1) \in {"0x", "0X"}
       /\ DigitValue(CharAt(s, i + 2)) < 16
    THEN strtoimax_result(s, i + 2, strtoimax_digits(s, i + 2, 16, 0))
    ELSE strtoimax_result(s, i,
             strtoimax_digits(s, i, IF CharAt(s, i) = "0" THEN 8 ELSE 10, 0))

\* strtoimax after white space, at position i: an optional sign
strtoimax_sign(s, i) ==
    strtoimax_number(s, IF CharAt(s, i) \in {"+", "-"} THEN i + 1 ELSE i)

\* strtoimax(value, &end, 0): the magnitude of the number read (-1 when it
\* is beyond INT_MAX) and the rest of the string after it
strtoimax(s) == strtoimax_sign(s, SkipSpace(s, 1))

\* config.c, parse_unit_factor: 0 when the rest is no unit
parse_unit_factor(end) ==
    CASE end = "" -> 1
      [] end \in {"k", "K"} -> 1024
      [] end \in {"m", "M"} -> 1024 * 1024
      [] end \in {"g", "G"} -> 1024 * 1024 * 1024
      [] OTHER -> 0

\* config.c, git_parse_signed: whether the magnitude n times the unit
\* factor fits an int, and whether the number is zero
int_in_range(n, factor) ==
    IF n < 0 \/ factor = 0 \/ n > INT_MAX \div factor
    THEN [ok |-> FALSE, zero |-> FALSE]
    ELSE [ok |-> TRUE, zero |-> n = 0]

int_of_number(r) == int_in_range(r.n, parse_unit_factor(r.rest))

\* config.c, git_parse_int: whether value is an integer that fits an int,
\* and whether that integer is zero
git_parse_int(value) ==
    IF value = NULL \/ value = "" THEN [ok |-> FALSE, zero |-> FALSE]
    ELSE int_of_number(strtoimax(value))

bool_of_int(n) == [ok |-> n.ok, v |-> IF n.ok /\ ~n.zero THEN 1 ELSE 0]

bool_of_text(v, value) ==
    IF v >= 0 THEN [ok |-> TRUE, v |-> v] ELSE bool_of_int(git_parse_int(value))

\* config.c, git_config_bool: the truth value of the entry; it dies on a
\* value that is neither a boolean word nor an integer, reported as ok FALSE
git_config_bool(var, value) ==
    bool_of_text(git_parse_maybe_bool_text(value), value)

colorbool_of_bool(b) ==
    IF ~b.ok THEN [ret |-> -1, v |-> -1]
    ELSE IF b.v = 0 THEN [ret |-> 0, v |-> 0]
    ELSE [ret |-> 0, v |-> GIT_COLOR_AUTO]

\* color.c, git_config_colorbool(var, value): never, always and auto by
\* name, otherwise a boolean: false is 0 and true is GIT_COLOR_AUTO. Where
\* git_config_bool dies the result is ret -1
git_config_colorbool(var, value) ==
    IF value # NULL /\ strcasecmp(value, "never") = 0 THEN [ret |-> 0, v |-> 0]
    ELSE IF value # NULL /\ strcasecmp(value, "always") = 0 THEN [ret |-> 0, v |-> 1]
    ELSE IF value # NULL /\ strcasecmp(value, "auto") = 0
    THEN [ret |-> 0, v |-> GIT_COLOR_AUTO]
    ELSE colorbool_of_bool(git_config_bool(var, value))

\* git-compat-util.h, isspace: space, \t, \n and \r
isspace(c) == c \in {" ", "\t", "\n", "\r"}

\* while (len > 0 && isspace(*ptr)): the position of the next character
\* that is no white space
RECURSIVE skip_space(_, _)
skip_space(s, i) == IF isspace(CharAt(s, i)) THEN skip_space(s, i + 1) ELSE i

\* the position after the word that starts at i
RECURSIVE word_end(_, _)
word_end(s, i) ==
    IF i > Len(s) \/ isspace(CharAt(s, i)) THEN i ELSE word_end(s, i + 1)

\* color.c, struct color
struct_color(type, value, red, green, blue) ==
    [type |-> type, value |-> value, red |-> red, green |-> green, blue |-> blue]

no_color == struct_color("COLOR_UNSPECIFIED", 0, 0, 0, 0)

bad_color == [ret |-> -1, c |-> no_color]

color_names ==
    <<"normal", "black", "red", "green", "yellow", "blue", "magenta", "cyan",
      "white">>

\* color_names[i] as a color: "normal", then the ANSI colors 0..7
named_color(i) ==
    IF i = 1 THEN struct_color("COLOR_NORMAL", 0, 0, 0, 0)
    ELSE struct_color("COLOR_ANSI", i - 2, 0, 0, 0)

\* get_hex_color: the byte written as two hexadecimal digits at k
get_hex_color(s, k) == 16 * DigitValue(CharAt(s, k)) + DigitValue(CharAt(s, k + 1))

\* the result of strtol when the digits r were read from position from, after
\* a sign: end is the position after the number, 1 when there was no digit
strtol_result(from, neg, r) ==
    [neg |-> neg, n |-> r.n, end |-> IF r.end = from THEN 1 ELSE r.end]

strtol_digits(s, i, neg) == strtol_result(i, neg, strtoimax_digits(s, i, 10, 0))

strtol_sign(s, i) ==
    IF CharAt(s, i) = "-" THEN strtol_digits(s, i + 1, TRUE)
    ELSE IF CharAt(s, i) = "+" THEN strtol_digits(s, i + 1, FALSE)
    ELSE strtol_digits(s, i, FALSE)

\* strtol(name, &end, 10): sign, magnitude (-1 when beyond INT_MAX), end
strtol(s) == strtol_sign(s, SkipSpace(s, 1))

\* parse_color, the 0-255 slots: the whole word must be the number r; -1 is
\* "normal", 0..7 the ANSI colors, 8..255 the 256-color slots
slot_color(word, r) ==
    IF r.end # Len(word) + 1 \/ r.n < 0 THEN bad_color
    ELSE IF r.neg /\ r.n > 1 THEN bad_color
    ELSE IF r.neg /\ r.n = 1 THEN [ret |-> 0, c |-> struct_color("COLOR_NORMAL", 0, 0, 0, 0)]
    ELSE IF r.n < 8 THEN [ret |-> 0, c |-> struct_color("COLOR_ANSI", r.n, 0, 0, 0)]
    ELSE IF r.n < 256 THEN [ret |-> 0, c |-> struct_color("COLOR_256", r.n, 0, 0, 0)]
    ELSE bad_color

\* color.c, parse_color(out, name, len): a color name in any case, #RRGGBB,
\* or a number
parse_color(word) ==
    IF \E i \in 1..9 : strcasecmp(word, color_names[i]) = 0
    THEN [ret |-> 0,
          c |-> named_color(CHOOSE i \in 1..9 : strcasecmp(word, color_names[i]) = 0)]
    ELSE IF /\ Len(word) = 7
            /\ CharAt(word, 1) = "#"
            /\ \A k \in 2..7 : DigitValue(CharAt(word, k)) < 16
    THEN [ret |-> 0,
          c |-> struct_color("COLOR_RGB", 0, get_hex_color(word, 2),
                      get_hex_color(word, 4), get_hex_color(word, 6))]
    ELSE slot_color(word, strtol(word))

\* color.c, parse_attr: the table of attribute names with the number that
\* sets and the number that clears each
attrs ==
    [name \in {"bold", "dim", "italic", "ul", "blink", "reverse", "strike"} |->
        CASE name = "bold"    -> [val |-> 1, neg |-> 22]
          [] name = "dim"     -> [val |-> 2, neg |-> 22]
          [] name = "italic"  -> [val |-> 3, neg |-> 23]
          [] name = "ul"      -> [val |-> 4, neg |-> 24]
          [] name = "blink"   -> [val |-> 5, neg |-> 25]
          [] name = "reverse" -> [val |-> 7, neg |-> 27]
          [] name = "strike"  -> [val |-> 9, neg |-> 29]]

attr_of(name, negate) ==
    IF name \in DOMAIN attrs
    THEN IF negate THEN attrs[name].neg ELSE attrs[name].val
    ELSE -1

skip_dash(name) ==
    IF skip_prefix(name, "-").ok THEN skip_prefix(name, "-").rest ELSE name

\* color.c, parse_attr(name, len): the attribute number, negated after "no"
\* or "no-", -1 for a word that is no attribute
parse_attr(word) ==
    IF skip_prefix(word, "no").ok
    THEN attr_of(skip_dash(skip_prefix(word, "no").rest), TRUE)
    ELSE attr_of(word, FALSE)

\* a color word: the foreground first, then the background, a third is bad
put_color(c, st) ==
    IF st.fg.type = "COLOR_UNSPECIFIED" THEN [st EXCEPT !.fg = c]
    ELSE IF st.bg.type = "COLOR_UNSPECIFIED" THEN [st EXCEPT !.bg = c]
    ELSE [st EXCEPT !.ret = -1]

\* attr |= (1 << val), or bad
put_attr(val, st) ==
    IF val >= 0 THEN [st EXCEPT !.attr = @ \cup {val}] ELSE [st EXCEPT !.ret = -1]

put_word(c, word, st) ==
    IF c.ret = 0 THEN put_color(c.c, st) ELSE put_attr(parse_attr(word), st)

\* color_parse_mem, the loop over the words "[fg [bg]] [attr]..." from i
RECURSIVE color_words(_, _, _)
color_words(s, i, st) ==
    IF i > Len(s) \/ st.ret < 0 THEN st
    ELSE color_words(s, skip_space(s, word_end(s, i)),
             put_word(parse_color(SubSeq(s, i, word_end(s, i) - 1)),
                      SubSeq(s, i, word_end(s, i) - 1), st))

color_empty(c) == c.type \in {"COLOR_UNSPECIFIED", "COLOR_NORMAL"}

\* color.c, color_output(out, len, c, type)
color_output(c, type) ==
    CASE c.type = "COLOR_ANSI" -> type \o Dec(c.value)
      [] c.type = "COLOR_256"  -> type \o "8;5;" \o Dec(c.value)
      [] c.type = "COLOR_RGB"  ->
            type \o "8;2;" \o Dec(c.red) \o ";" \o Dec(c.green) \o ";" \o Dec(c.blue)

\* the numbers of the attribute bits from i up, in ascending order
RECURSIVE attr_codes(_, _)
attr_codes(attr, i) ==
    IF i > 31 THEN <<>>
    ELSE (IF i \in attr THEN <<Dec(i)>> ELSE <<>>) \o attr_codes(attr, i + 1)

color_codes(st) ==
    attr_codes(st.attr, 0)
        \o (IF color_empty(st.fg) THEN <<>> ELSE <<color_output(st.fg, "3")>>)
        \o (IF color_empty(st.bg) THEN <<>> ELSE <<color_output(st.bg, "4")>>)

\* the codes from the k-th on, separated by ";"
RECURSIVE join_codes(_, _)
join_codes(codes, k) ==
    IF k > Len(codes) THEN ""
    ELSE (IF k > 1 THEN ";" ELSE "") \o codes[k] \o join_codes(codes, k + 1)

\* what color_parse_mem writes to dst after the loop
color_text(st) ==
    IF st.attr # {} \/ ~color_empty(st.fg) \/ ~color_empty(st.bg)
    THEN "ESC[" \o join_codes(color_codes(st), 1) \o "m"
    ELSE ""

color_result(st) ==
    IF st.ret < 0 THEN [ret |-> -1, dst |-> ""]
    ELSE [ret |-> 0, dst |-> color_text(st)]

\* !strncasecmp(ptr, "reset", len): the len characters left are the first
\* len characters of "reset", in any case
is_reset(rest) ==
    Len(rest) <= 5 /\ strcasecmp(rest, SubSeq("reset", 1, Len(rest))) = 0

color_parse_at(value, i) ==
    IF i > Len(value) THEN [ret |-> 0, dst |-> ""]
    ELSE IF is_reset(SubSeq(value, i, Len(value)))
    THEN [ret |-> 0, dst |-> GIT_COLOR_RESET]
    ELSE color_result(color_words(value, i,
             [ret |-> 0, fg |-> no_color, bg |-> no_color, attr |-> {}]))

\* color.c, color_parse(value, dst): 0 and the escape written to dst, -1 on
\* a bad color
color_parse(value) == color_parse_at(value, skip_space(value, 1))

\* config_error_nonbool(var): reports "Missing value" and returns -1
config_error_nonbool(var) == -1

\* git_default_config(var, value, cbdata) for the keys of other subsystems
git_default_config(var, value) == 0

parse_color_slot(slot) ==
    IF strcasecmp(slot, "prompt") = 0 THEN COLOR_PROMPT
    ELSE IF strcasecmp(slot, "header") = 0 THEN COLOR_HEADER
    ELSE IF strcasecmp(slot, "help") = 0 THEN COLOR_HELP
    ELSE IF strcasecmp(slot, "error") = 0 THEN COLOR_ERROR
    ELSE -1

\* add_i_config(var, value, cbdata) on the statics uc (use_color) and cols
\* (colors): the return value and the statics after the call
add_i_config(var, value, uc, cols) ==
    IF var = "color.interactive"
    THEN LET b == git_config_colorbool(var, value)
         IN  [ret |-> b.ret, use_color |-> IF b.ret < 0 THEN uc ELSE b.v,
              colors |-> cols]
    ELSE LET sp == skip_prefix(var, "color.interactive")
         IN  IF sp.ok
             THEN LET slot == parse_color_slot(sp.rest)
                  IN  IF slot < 0
                      THEN [ret |-> 0, use_color |-> uc, colors |-> cols]
                      ELSE IF value = NULL
                      THEN [ret |-> config_error_nonbool(var),
                            use_color |-> uc, colors |-> cols]
                      ELSE LET c == color_parse(value)
                           IN  [ret |-> c.ret, use_color |-> uc,
                                colors |-> IF c.ret < 0 THEN cols
                                           ELSE [cols EXCEPT ![slot] = c.dst]]
             ELSE [ret |-> git_default_config(var, value),
                   use_color |-> uc, colors |-> cols]

\* want_color(var): "never" and "always" decide; unset (-1) and "auto" follow
\* the default, which colors exactly when stdout is a terminal (tty)
want_color(var, tty) ==
    IF var = 0 THEN FALSE
    ELSE IF var = 1 THEN TRUE
    ELSE tty

get_color(ix, uc, cols, tty) ==
    IF want_color(uc, tty) THEN cols[ix] ELSE ""

----------------------------------------------------------------------------
(* File names, strcmp and the hashmap *)

creamwove == <<99, 114, 101, 97, 109, 119, 111, 118, 101>>

quists == <<113, 117, 105, 115, 116, 115>>

e_acute == <<195, 169>>

\* paths the diff engine may report: "creamwove" and "quists" have the same
\* strhash, the third name starts with a byte above 127
Names == {creamwove, quists, e_acute}

\* the byte at 1-based position i of a C string, 0 at its terminator
ByteAt(s, i) == IF i <= Len(s) THEN s[i] ELSE 0

\* strcmp(a, b) on the names' bytes taken as unsigned char: the difference of
\* the first pair of bytes that differ, 0 when there is none
RECURSIVE strcmp_from(_, _, _)
strcmp_from(a, b, i) ==
    IF ByteAt(a, i) # ByteAt(b, i) THEN ByteAt(a, i) - ByteAt(b, i)
    ELSE IF ByteAt(a, i) = 0 THEN 0
    ELSE strcmp_from(a, b, i + 1)

strcmp(a, b) == strcmp_from(a, b, 1)

\* bitwise exclusive or of two bytes
RECURSIVE Xor8(_, _, _)
Xor8(x, y, bits) ==
    IF bits = 0 THEN 0
    ELSE ((x + y) % 2) + 2 * Xor8(x \div 2, y \div 2, bits - 1)

\* strhash(str): 32-bit FNV-1, hash = (hash * 0x01000193) ^ c from 0x811c9dc5.
\* A hash is kept as <<high 16 bits, low 16 bits>>.
FNV32_BASE == <<33052, 40389>>

fnv_step(h, c) ==
    LET lo   == h[2] * 403
        hi   == h[1] * 403 + (h[2] % 256) * 256 + (lo \div 65536)
        lo16 == lo % 65536
    IN  <<hi % 65536, (lo16 \div 256) * 256 + Xor8(lo16 % 256, c, 8)>>

RECURSIVE strhash_from(_, _, _)
strhash_from(str, i, h) ==
    IF i > Len(str) THEN h
    ELSE strhash_from(str, i + 1, fnv_step(h, str[i]))

fnv1(str) == strhash_from(str, 1, FNV32_BASE)

\* the hash of every name of the model, computed once
strhash_of == [n \in Names |-> fnv1(n)]

strhash(str) == IF str \in Names THEN strhash_of[str] ELSE fnv1(str)

\* a null const char * where a name is expected (no byte string equals it)
NullName == <<-1>>

\* hash_cmp with the keydata argument ignored: the name is always taken from
\* entry_or_key, which for a lookup by key carries no name
hash_cmp_ignoring_keydata(entry, entry_or_key, keydata) ==
    strcmp(entry.name, entry_or_key.name)

\* hash_cmp(entry, entry_or_key, keydata): the map's comparison function
hash_cmp(entry, entry_or_key, keydata) ==
    LET name == IF keydata # NullName THEN keydata ELSE entry_or_key.name
    IN  strcmp(entry.name, name)

\* a null struct file_stat *
NoEntry == [name |-> NullName]

\* hashmap_get_from_hash(map, hash, keydata): an entry of the map with this
\* hash that the comparison function reports equal to the key, NULL if none
hashmap_get_from_hash(map, hash, keydata) ==
    LET key   == [name |-> NullName, hash |-> hash]
        match == {e \in BagToSet(map) :
                     e.hash = hash /\ hash_cmp(e, key, keydata) = 0}
    IN  IF match = {} THEN NoEntry
        ELSE CHOOSE e \in match : TRUE

\* new_file_stat on memory that was not zeroed: the deltas hold what the
\* memory held
new_file_stat_unzeroed(name, hash) ==
    [name     |-> name,
     hash     |-> hash,
     index    |-> [added |-> 7, deleted |-> 0],
     worktree |-> [added |-> 0, deleted |-> 7]]

\* FLEX_ALLOC_STR(entry, name, name); hashmap_entry_init(entry, hash):
\* a zeroed file_stat carrying the name and its hash
new_file_stat(name, hash) ==
    [name     |-> name,
     hash     |-> hash,
     index    |-> [added |-> 0, deleted |-> 0],
     worktree |-> [added |-> 0, deleted |-> 0]]

hashmap_add(map, entry) == map (+) SetToBag({entry})

\* an assignment through the pointer entry: the map holds new in its place
store(map, entry, new) == (map (-) SetToBag({entry})) (+) SetToBag({new})

----------------------------------------------------------------------------
(* The diff engine's reports and collect_changes_cb *)

\* (added, deleted) pairs the diff engine may report
Counts == {<<0, 0>>, <<3, 1>>, <<0, 2>>}

\* one struct diffstat_file: stat.files[i]
Events == {[name |-> n, added |-> c[1], deleted |-> c[2]] : n \in Names, c \in Counts}

\* one struct diff_filepair: q->queue[i]. A pair of kind "file" carries the
\* counts its diffstat_file will hold; for a pair of kind "unmodified" (an
\* unmodified pair, or a pair of trees) diff_flush_stat adds no diffstat_file.
\* Such a pair leaves no trace whatever its path is, so one path stands for all
Pairs ==
    {[name |-> e.name, added |-> e.added, deleted |-> e.deleted, kind |-> "file"] :
        e \in Events}
    \cup {[name |-> quists, added |-> 0, deleted |-> 0, kind |-> "unmodified"]}

\* the queues of at most k pairs
QueuesUpTo(k) == UNION {[1..n -> Pairs] : n \in 0..k}

\* the queues a diff run may hand to the callback (at most MaxEvents in a run)
Queues == QueuesUpTo(MaxEvents)

has_diffstat(p) == p.kind = "file"

\* diff_flush_stat over the queue: stat.files, one diffstat_file for every
\* queued pair that has one, in queue order
diff_flush_stat(q) ==
    LET kept == SelectSeq(q, has_diffstat)
    IN  [i \in 1..Len(kept) |->
            [name |-> kept[i].name, added |-> kept[i].added,
             deleted |-> kept[i].deleted]]

\* the delta collect_changes_cb assigns under phase ph
written_field(ph) ==
    IF ph = WORKTREE THEN "worktree"
    ELSE IF ph = INDEX THEN "index"
    ELSE "none"

\* collect_one replacing the whole record by a fresh one that carries only the
\* delta of the current phase
collect_one_resetting(map, f, ph) ==
    LET hash  == strhash(f.name)
        found == hashmap_get_from_hash(map, hash, f.name)
        fresh == new_file_stat(f.name, hash)
        entry == IF found = NoEntry THEN fresh ELSE found
        map1  == IF found = NoEntry THEN hashmap_add(map, entry) ELSE map
        delta == [added |-> f.added, deleted |-> f.deleted]
    IN  IF written_field(ph) = "worktree"
        THEN store(map1, entry, [fresh EXCEPT !.worktree = delta])
        ELSE IF written_field(ph) = "index"
        THEN store(map1, entry, [fresh EXCEPT !.index = delta])
        ELSE map1

\* collect_one adding the reported counts to the delta instead of assigning
collect_one_summing(map, f, ph) ==
    LET hash  == strhash(f.name)
        found == hashmap_get_from_hash(map, hash, f.name)
        entry == IF found = NoEntry THEN new_file_stat(f.name, hash) ELSE found
        map1  == IF found = NoEntry THEN hashmap_add(map, entry) ELSE map
    IN  IF written_field(ph) = "worktree"
        THEN store(map1, entry,
                   [entry EXCEPT !.worktree = [added   |-> @.added + f.added,
                                               deleted |-> @.deleted + f.deleted]])
        ELSE IF written_field(ph) = "index"
        THEN store(map1, entry,
                   [entry EXCEPT !.index = [added   |-> @.added + f.added,
                                            deleted |-> @.deleted + f.deleted]])
        ELSE map1

\* one turn of the second loop of collect_changes_cb, on stat.files[i] = f
collect_one(map, f, ph) ==
    LET hash  == strhash(f.name)
        found == hashmap_get_from_hash(map, hash, f.name)
        entry == IF found = NoEntry THEN new_file_stat(f.name, hash) ELSE found
        map1  == IF found = NoEntry THEN hashmap_add(map, entry) ELSE map
        delta == [added |-> f.added, deleted |-> f.deleted]
    IN  IF written_field(ph) = "worktree"
        THEN store(map1, entry, [entry EXCEPT !.worktree = delta])
        ELSE IF written_field(ph) = "index"
        THEN store(map1, entry, [entry EXCEPT !.index = delta])
        ELSE map1

RECURSIVE collect_loop(_, _, _, _)
collect_loop(map, stat, i, ph) ==
    IF i > Len(stat) THEN map
    ELSE collect_loop(collect_one(map, stat[i], ph), stat, i + 1, ph)

\* collect_changes_cb(q, options, data): the file_map after the call
collect_changes_cb(q, map, ph) ==
    IF Len(q) = 0 THEN map
    ELSE collect_loop(map, diff_flush_stat(q), 1, ph)

\* history: the last report of each name in the pass, NoReport if none
NoReport == <<>>

RECURSIVE observe(_, _, _)
observe(last, q, i) ==
    IF i > Len(q) THEN last
    ELSE observe([last EXCEPT ![q[i].name] = <<q[i].added, q[i].deleted>>], q, i + 1)

\* history: whether the queue reports some name twice with different counts
rewrites(q) ==
    \E i, j \in 1..Len(q) :
        /\ i < j
        /\ q[i].name = q[j].name
        /\ <<q[i].added, q[i].deleted>> # <<q[j].added, q[j].deleted>>

----------------------------------------------------------------------------
(* Formatting *)

RECURSIVE Spaces(_)
Spaces(n) == IF n <= 0 THEN "" ELSE " " \o Spaces(n - 1)

\* %<w>s and %<w>d: right-justified in a field of at least w characters
PadLeft(s, w) == Spaces(w - Len(s)) \o s

\* snprintf(buf, size, ...): at most size - 1 characters are stored
snprintf(size, text) ==
    IF Len(text) > size - 1 THEN SubSeq(text, 1, size - 1) ELSE text

CellSize == 50

\* worktree_changes testing the two counts with && instead of ||
worktree_changes_and(f) ==
    IF f.worktree.added # 0 /\ f.worktree.deleted # 0
    THEN snprintf(CellSize, "+" \o Dec(f.worktree.added) \o "/-" \o Dec(f.worktree.deleted))
    ELSE snprintf(CellSize, "nothing")

worktree_changes(f) ==
    IF f.worktree.added # 0 \/ f.worktree.deleted # 0
    THEN snprintf(CellSize, "+" \o Dec(f.worktree.added) \o "/-" \o Dec(f.worktree.deleted))
    ELSE snprintf(CellSize, "nothing")

index_changes(f) ==
    IF f.index.added # 0 \/ f.index.deleted # 0
    THEN snprintf(CellSize, "+" \o Dec(f.index.added) \o "/-" \o Dec(f.index.deleted))
    ELSE snprintf(CellSize, "unchanged")

\* uintmax_t over its whole 64-bit range: a count is held as three limbs
\* <<high, middle, low>> of nine decimal digits each, most significant first
UINTMAX_MAX == <<18, 446744073, 709551615>>

IsZeroCount(v) == v[1] = 0 /\ v[2] = 0 /\ v[3] = 0

RECURSIVE Zeros(_)
Zeros(n) == IF n <= 0 THEN "" ELSE "0" \o Zeros(n - 1)

\* the nine digits of a limb below the leading one
LimbDigits(n) == Zeros(9 - Len(Dec(n))) \o Dec(n)

\* %ju of a count held in limbs
ju(v) ==
    IF v[1] > 0 THEN Dec(v[1]) \o LimbDigits(v[2]) \o LimbDigits(v[3])
    ELSE IF v[2] > 0 THEN Dec(v[2]) \o LimbDigits(v[3])
    ELSE Dec(v[3])

\* worktree_changes_wide with the cell declared as char[32]
worktree_changes_wide_32(f) ==
    IF ~IsZeroCount(f.worktree.added) \/ ~IsZeroCount(f.worktree.deleted)
    THEN snprintf(32, "+" \o ju(f.worktree.added) \o "/-" \o ju(f.worktree.deleted))
    ELSE snprintf(32, "nothing")

\* lines 232-236 on counts held in limbs
worktree_changes_wide(f) ==
    IF ~IsZeroCount(f.worktree.added) \/ ~IsZeroCount(f.worktree.deleted)
    THEN snprintf(CellSize, "+" \o ju(f.worktree.added) \o "/-" \o ju(f.worktree.deleted))
    ELSE snprintf(CellSize, "nothing")

\* lines 238-242 on counts held in limbs
index_changes_wide(f) ==
    IF ~IsZeroCount(f.index.added) \/ ~IsZeroCount(f.index.deleted)
    THEN snprintf(CellSize, "+" \o ju(f.index.added) \o "/-" \o ju(f.index.deleted))
    ELSE snprintf(CellSize, "unchanged")

\* modified_fmt = "%12s %12s %s": the pieces it writes
modified_fmt(a, b, c) == <<PadLeft(a, 12), " ", PadLeft(b, 12), " ", c>>

\* header_line writing the color without the closing reset
header_line_unclosed(color) ==
    <<HEADER_INDENT, color>> \o modified_fmt("staged", "unstaged", "path")
        \o <<"", "\n">>

\* lines 213-216: indent, then color_fprintf (color, text, reset), then "\n"
header_line(color) ==
    <<HEADER_INDENT, color>> \o modified_fmt("staged", "unstaged", "path")
        \o <<IF color # "" THEN GIT_COLOR_RESET ELSE "", "\n">>

\* row_line passing the two cells to modified_fmt in the other order
row_line_swapped(i, f) ==
    <<" " \o PadLeft(Dec(i + 1), 2) \o ": ">>
        \o modified_fmt(worktree_changes(f), index_changes(f), f.name)
        \o <<"\n">>

\* lines 244-246 for files[i] = f (i counted from 0)
row_line(i, f) ==
    <<" " \o PadLeft(Dec(i + 1), 2) \o ": ">>
        \o modified_fmt(index_changes(f), worktree_changes(f), f.name)
        \o <<"\n">>

blank_line == <<"\n">>

\* alphabetical_cmp comparing the names' bytes as signed char
RECURSIVE signed_strcmp_from(_, _, _)
signed_strcmp_from(a, b, i) ==
    LET sa == IF ByteAt(a, i) > 127 THEN ByteAt(a, i) - 256 ELSE ByteAt(a, i)
        sb == IF ByteAt(b, i) > 127 THEN ByteAt(b, i) - 256 ELSE ByteAt(b, i)
    IN  IF sa # sb THEN sa - sb
        ELSE IF sa = 0 THEN 0
        ELSE signed_strcmp_from(a, b, i + 1)

alphabetical_cmp_signed(a, b) == signed_strcmp_from(a.name, b.name, 1)

alphabetical_cmp(a, b) == strcmp(a.name, b.name)

\* QSORT(files, n, alphabetical_cmp): the array sorted by the comparison
RECURSIVE sort_insert(_, _, _)
sort_insert(sorted, x, k) ==
    IF k > Len(sorted) THEN Append(sorted, x)
    ELSE IF alphabetical_cmp(x, sorted[k]) < 0
    THEN SubSeq(sorted, 1, k - 1) \o <<x>> \o SubSeq(sorted, k, Len(sorted))
    ELSE sort_insert(sorted, x, k + 1)

RECURSIVE QSORT_from(_, _, _)
QSORT_from(files, i, sorted) ==
    IF i > Len(files) THEN sorted
    ELSE QSORT_from(files, i + 1, sort_insert(sorted, files[i], 1))

\* QSORT leaving the array in the order of iteration
QSORT_iteration_order(files) == files

QSORT(files) == QSORT_from(files, 1, <<>>)

\* s.file_map.size
size(map) == BagCardinality(map)

\* lines 218-223: the arrays files[] the loop over the iterator can fill, one
\* for every order in which the iterator may yield the entries
snapshots(map) ==
    {files \in [1..size(map) -> BagToSet(map)] :
        \A e \in BagToSet(map) :
            Cardinality({i \in 1..size(map) : files[i] = e}) = CopiesIn(e, map)}

\* print_rows with the loop stopping one element early
print_rows_short(files) == [i \in 1..(Len(files) - 1) |-> row_line(i - 1, files[i])]

\* lines 226-247: the rows of the sorted array
print_rows(files) == [i \in 1..Len(files) |-> row_line(i - 1, files[i])]

\* lines 244-246 for files[i] = f whose counts are held in limbs
row_line_wide(i, f) ==
    <<" " \o PadLeft(Dec(i + 1), 2) \o ": ">>
        \o modified_fmt(index_changes_wide(f), worktree_changes_wide(f), f.name)
        \o <<"\n">>

\* lines 226-247 on records whose counts are held in limbs
print_rows_wide(files) == [i \in 1..Len(files) |-> row_line_wide(i - 1, files[i])]

----------------------------------------------------------------------------
(* Inputs of a run *)

\* configuration entries git_config may deliver, as <<var, value>>
ConfigEntries ==
    { <<"color.interactive", "always">>,
      <<"color.interactive.header", "red">>,
      <<"color.interactive.header", "bogus">>,
      <<"color.interactive.help", NULL>>,
      <<"color.interactiveheader", "red">>,
      <<"color.interactiveheader", "bogus">>,
      <<"color.interactiveerror", NULL>>,
      <<"color.interactive.unknown", "bogus">>,
      <<"core.editor", "vi">> }

ConfigFiles == UNION {[1..n -> ConfigEntries] : n \in 0..MaxConfigEntries}

Argvs == { <<"add--helper">>, <<"add--helper", "--status">> }

\* what an uninitialised enum collection_phase may hold
IndeterminatePhase == {WORKTREE, INDEX, 2}

EMPTY_TREE_SHA1_HEX == "4b825dc642cb6eb9a060e54bf8d69288fbee4904"

Passes == {"run_diff_files", "run_diff_index"}

Init ==
    /\ pc = "git_config"
    /\ config \in ConfigFiles
    /\ argv \in Argvs
    /\ use_color = -1
    /\ colors = colors_init
    /\ mode = DEFAULT
    /\ header_color = ""
    /\ phase \in IndeterminatePhase
    /\ reference = ""
    /\ file_map = EmptyBag
    /\ out = <<>>
    /\ errout = <<>>
    /\ exit_status = NoExit
    /\ seen = [p \in Passes |-> [n \in Names |-> NoReport]]
    /\ writes = {}
    /\ overwrote = {}
    /\ delivered = 0
    /\ cache = "unread"
    /\ head = "unasked"

----------------------------------------------------------------------------
(* cmd_add__helper *)

\* line 273, git_config(add_i_config, NULL): the next entry is handed to the
\* callback; a negative return makes git_config die
git_config_entry ==
    /\ pc = "git_config"
    /\ config # <<>>
    /\ LET e == Head(config)
           r == add_i_config(e[1], e[2], use_color, colors)
       IN  /\ config' = Tail(config)
           /\ use_color' = r.use_color
           /\ colors' = r.colors
           /\ IF r.ret < 0
              THEN /\ pc' = "exit"
                   /\ exit_status' = 128
                   /\ errout' = Append(errout, "fatal: bad config variable")
              ELSE UNCHANGED <<pc, exit_status, errout>>
    /\ UNCHANGED <<argv, mode, header_color, phase, reference, file_map, out,
                   seen, writes,
                   overwrote, cache, delivered,
                   head>>

\* parse_options leaving mode alone when --status is given
parse_options_ignoring_status ==
    /\ pc = "git_config"
    /\ config = <<>>
    /\ mode' = mode
    /\ pc' = "dispatch"
    /\ UNCHANGED <<config, argv, use_color, colors, header_color, phase,
                   reference, file_map, out, errout, exit_status, seen, writes,
                   overwrote, cache, delivered,
                   head>>

\* lines 274-276, parse_options: --status selects STATUS
parse_options ==
    /\ pc = "git_config"
    /\ config = <<>>
    /\ mode' = IF \E i \in 1..Len(argv) : argv[i] = "--status" THEN STATUS ELSE mode
    /\ pc' = "dispatch"
    /\ UNCHANGED <<config, argv, use_color, colors, header_color, phase,
                   reference, file_map, out, errout, exit_status, seen, writes,
                   overwrote, cache, delivered,
                   head>>

\* lines 280-282, usage_with_options: usage on stderr, exit(129)
usage_with_options ==
    /\ pc = "dispatch"
    /\ mode # STATUS
    /\ errout' = Append(errout, "usage: git add-interactive--helper <command>")
    /\ exit_status' = 129
    /\ pc' = "exit"
    /\ UNCHANGED <<config, argv, use_color, colors, mode, header_color, phase,
                   reference, file_map, out, seen, writes,
                   overwrote, cache, delivered,
                   head>>

\* line 284, return 0
cmd_return ==
    /\ pc = "return"
    /\ exit_status' = 0
    /\ pc' = "exit"
    /\ UNCHANGED <<config, argv, use_color, colors, mode, header_color, phase,
                   reference, file_map, out, errout, seen, writes,
                   overwrote, cache, delivered,
                   head>>

----------------------------------------------------------------------------
(* print_modified *)

\* print_modified_enter going on whatever read_cache() returned
print_modified_enter_unchecked ==
    /\ pc = "dispatch"
    /\ mode = STATUS
    /\ \E tty \in BOOLEAN :
          header_color' = get_color(COLOR_HEADER, use_color, colors, tty)
    /\ \E read_cache \in {-1, 0, 1} :
          /\ cache' = IF read_cache < 0 THEN "failed" ELSE "ok"
          /\ pc' = "setup"
    /\ UNCHANGED <<config, argv, use_color, colors, mode, phase, reference,
                   file_map, out, errout, exit_status, seen, writes, overwrote,
                   delivered,
                   head>>

\* lines 190-202: header_color = get_color(COLOR_HEADER); return when
\* read_cache() < 0
print_modified_enter ==
    /\ pc = "dispatch"
    /\ mode = STATUS
    /\ \E tty \in BOOLEAN :
          header_color' = get_color(COLOR_HEADER, use_color, colors, tty)
    /\ \E read_cache \in {-1, 0, 1} :
          /\ cache' = IF read_cache < 0 THEN "failed" ELSE "ok"
          /\ pc' = IF read_cache < 0 THEN "return" ELSE "setup"
    /\ UNCHANGED <<config, argv, use_color, colors, mode, phase, reference,
                   file_map, out, errout, exit_status, seen, writes, overwrote,
                   delivered,
                   head>>

\* print_modified_setup with the test of get_sha1 the other way round
print_modified_setup_negated ==
    /\ pc = "setup"
    /\ \E get_sha1 \in {0, -1} :
          /\ head' = IF get_sha1 = 0 THEN "resolved" ELSE "missing"
          /\ reference' = IF get_sha1 = 0 THEN EMPTY_TREE_SHA1_HEX ELSE "HEAD"
    /\ file_map' = EmptyBag
    /\ pc' = "collect_changes_worktree"
    /\ UNCHANGED <<config, argv, use_color, colors, mode, header_color, phase,
                   out, errout, exit_status, seen, writes,
                   overwrote, cache, delivered>>

\* lines 204-205: s.reference, hashmap_init(&s.file_map, hash_cmp, 0)
print_modified_setup ==
    /\ pc = "setup"
    /\ \E get_sha1 \in {0, -1} :
          /\ head' = IF get_sha1 = 0 THEN "resolved" ELSE "missing"
          /\ reference' = IF get_sha1 = 0 THEN "HEAD" ELSE EMPTY_TREE_SHA1_HEX
    /\ file_map' = EmptyBag
    /\ pc' = "collect_changes_worktree"
    /\ UNCHANGED <<config, argv, use_color, colors, mode, header_color, phase,
                   out, errout, exit_status, seen, writes,
                   overwrote, cache, delivered>>

\* lines 150-159: s->phase = WORKTREE and the callback is installed
collect_changes_worktree ==
    /\ pc = "collect_changes_worktree"
    /\ phase' = WORKTREE
    /\ pc' = "run_diff_files"
    /\ UNCHANGED <<config, argv, use_color, colors, mode, header_color,
                   reference, file_map, out, errout, exit_status, seen, writes,
                   overwrote, cache, delivered,
                   head>>

\* the callback's effect on the program and on the history, for the queue q
\* whose pairs gave the diffstat files stat
run_diff_on(q, stat, next_pc) ==
    /\ delivered' = delivered + Len(stat)
    /\ file_map' = collect_changes_cb(q, file_map, phase)
    /\ seen' = [seen EXCEPT ![pc] = observe(seen[pc], stat, 1)]
    /\ writes' = IF Len(stat) = 0 THEN writes
                 ELSE writes \cup {<<pc, written_field(phase)>>}
    /\ pc' = next_pc
    /\ overwrote' = IF rewrites(stat) THEN overwrote \cup {pc} ELSE overwrote
    /\ UNCHANGED <<config, argv, use_color, colors, mode, header_color,
                   phase, reference, out, errout, exit_status, cache, head>>

\* the diff run of the pass named by pc hands its queue q to collect_changes_cb
run_diff(next_pc) ==
    \E q \in QueuesUpTo(MaxEvents - delivered) :
        /\ q \in Queues
        /\ delivered + Len(q) <= MaxEvents
        /\ run_diff_on(q, diff_flush_stat(q), next_pc)

\* line 161: run_diff_files(&rev, 0)
run_diff_files ==
    /\ pc = "run_diff_files"
    /\ run_diff("collect_changes_index")

\* collect_changes_index without the assignment to s->phase
collect_changes_index_stale ==
    /\ pc = "collect_changes_index"
    /\ pc' = "run_diff_index"
    /\ UNCHANGED <<config, argv, use_color, colors, mode, header_color, phase,
                   reference, file_map, out, errout, exit_status, seen, writes,
                   overwrote, cache, delivered,
                   head>>

\* lines 169-177: s->phase = INDEX and the callback is installed
collect_changes_index ==
    /\ pc = "collect_changes_index"
    /\ phase' = INDEX
    /\ pc' = "run_diff_index"
    /\ UNCHANGED <<config, argv, use_color, colors, mode, header_color,
                   reference, file_map, out, errout, exit_status, seen, writes,
                   overwrote, cache, delivered,
                   head>>

\* line 179: run_diff_index(&rev, 1)
run_diff_index ==
    /\ pc = "run_diff_index"
    /\ run_diff("render")

\* lines 208-211: the empty map prints one blank line
print_modified_empty ==
    /\ pc = "render"
    /\ size(file_map) < 1
    /\ out' = Append(out, blank_line)
    /\ pc' = "return"
    /\ UNCHANGED <<config, argv, use_color, colors, mode, header_color, phase,
                   reference, file_map, errout, exit_status, seen, writes,
                   overwrote, cache, delivered,
                   head>>

\* print_modified_header reached also with an empty map (no return at line 210)
print_modified_header_unguarded ==
    /\ pc = "render"
    /\ out' = Append(out, header_line(header_color))
    /\ pc' = "rows"
    /\ UNCHANGED <<config, argv, use_color, colors, mode, header_color, phase,
                   reference, file_map, errout, exit_status, seen, writes,
                   overwrote, cache, delivered,
                   head>>

\* lines 213-216: the header row
print_modified_header ==
    /\ pc = "render"
    /\ ~(size(file_map) < 1)
    /\ out' = Append(out, header_line(header_color))
    /\ pc' = "rows"
    /\ UNCHANGED <<config, argv, use_color, colors, mode, header_color, phase,
                   reference, file_map, errout, exit_status, seen, writes,
                   overwrote, cache, delivered,
                   head>>

\* lines 218-250: snapshot in iteration order, QSORT, the rows, a blank line
print_modified_rows ==
    /\ pc = "rows"
    /\ \E files \in snapshots(file_map) :
          out' = out \o print_rows(QSORT(files)) \o <<blank_line>>
    /\ pc' = "return"
    /\ UNCHANGED <<config, argv, use_color, colors, mode, header_color, phase,
                   reference, file_map, errout, exit_status, seen, writes,
                   overwrote, cache, delivered,
                   head>>

----------------------------------------------------------------------------

Next ==
    \/ git_config_entry
    \/ parse_options
    \/ usage_with_options
    \/ print_modified_enter
    \/ print_modified_setup
    \/ collect_changes_worktree
    \/ run_diff_files
    \/ collect_changes_index
    \/ run_diff_index
    \/ print_modified_empty
    \/ print_modified_header
    \/ print_modified_rows
    \/ cmd_return

Spec == Init /\ [][Next]_vars

----------------------------------------------------------------------------
(* Rendering over the whole range of uintmax_t: the run is taken up where   *)
(* both passes are over and the map holds one record, whose four counts     *)
(* range over values up to UINTMAX_MAX.                                     *)

\* counts at the ends of the digit lengths 1, 9, 10, 18, 19 and 20
WideCounts ==
    { <<0, 0, 0>>,
      <<0, 0, 7>>,
      <<0, 0, 999999999>>,
      <<0, 1, 0>>,
      <<0, 999999999, 999999999>>,
      <<1, 0, 0>>,
      <<9, 999999999, 999999999>>,
      <<10, 0, 0>>,
      UINTMAX_MAX }

WideDeltas == {[added |-> a, deleted |-> d] : a \in WideCounts, d \in WideCounts}

InitCells ==
    /\ pc = "render"
    /\ config = <<>>
    /\ argv = <<"add--helper", "--status">>
    /\ use_color = -1
    /\ colors = colors_init
    /\ mode = STATUS
    /\ header_color = ""
    /\ phase = INDEX
    /\ reference = "HEAD"
    /\ head = "resolved"
    /\ cache = "ok"
    /\ \E i \in WideDeltas, w \in WideDeltas :
          /\ file_map = SetToBag({[name |-> quists, hash |-> strhash(quists),
                                   index |-> i, worktree |-> w]})
          /\ seen = [p \in Passes |-> [n \in Names |->
                        IF n # quists THEN NoReport
                        ELSE IF p = "run_diff_files" THEN <<w.added, w.deleted>>
                        ELSE <<i.added, i.deleted>>]]
    /\ writes = {<<"run_diff_files", "worktree">>, <<"run_diff_index", "index">>}
    /\ overwrote = {}
    /\ delivered = 2
    /\ out = <<>>
    /\ errout = <<>>
    /\ exit_status = NoExit

\* lines 218-250 on records whose counts are held in limbs
print_modified_rows_wide ==
    /\ pc = "rows"
    /\ \E files \in snapshots(file_map) :
          out' = out \o print_rows_wide(QSORT(files)) \o <<blank_line>>
    /\ pc' = "return"
    /\ UNCHANGED <<config, argv, use_color, colors, mode, header_color, phase,
                   reference, file_map, errout, exit_status, seen, writes,
                   overwrote, cache, delivered, head>>

NextCells ==
    \/ print_modified_header
    \/ print_modified_rows_wide
    \/ cmd_return

SpecCells == InitCells /\ [][NextCells]_vars

----------------------------------------------------------------------------
(* Vocabulary of the properties *)

Reported(pass, n) == seen[pass][n] # NoReport

Observed(n) == Reported("run_diff_files", n) \/ Reported("run_diff_index", n)

ObservedNames == {n \in Names : Observed(n)}

RecordsNamed(map, n) == {e \in BagToSet(map) : e.name = n}

\* number of records of the map that carry the name n
NameCount(map, n) ==
    BagCardinality([e \in RecordsNamed(map, n) |-> CopiesIn(e, map)])

HasRecord(map, n) == RecordsNamed(map, n) # {}

TheRecord(map, n) == CHOOSE e \in RecordsNamed(map, n) : TRUE

Pair(delta) == <<delta.added, delta.deleted>>

\* a < b in the byte-wise lexicographic order
BytesLess(a, b) ==
    \E k \in 1..(Len(a) + 1) :
        /\ k <= Len(b)
        /\ \A j \in 1..(k - 1) : a[j] = b[j]
        /\ (k = Len(a) + 1 \/ a[k] < b[k])

\* the numbered rows among the printed lines, in print order
IsRow(line) == Len(line) = 7

RowsOf(o) == SelectSeq(o, IsRow)

Collected == pc \in {"render", "rows", "return", "exit"} /\ cache = "ok"

----------------------------------------------------------------------------
(* C1: at every moment the map holds exactly one record for each path some  *)
(* report has named, in either pass, and none for any other path; its size  *)
(* is the number of distinct paths reported. Paths with equal hash get      *)
(* separate records, a path reported again gets no second record.           *)
C1_OneRecordPerPath ==
    /\ \A e \in BagToSet(file_map) : e.name \in Names
    /\ \A n \in Names : NameCount(file_map, n) = IF Observed(n) THEN 1 ELSE 0
    /\ size(file_map) = Cardinality(ObservedNames)

\* both names of equal hash have been reported, one of them in both passes
C1_Witness ==
    /\ Collected
    /\ strhash(creamwove) = strhash(quists)
    /\ Reported("run_diff_files", creamwove)
    /\ Reported("run_diff_index", creamwove)
    /\ Observed(quists)
    /\ size(file_map) = 2

(* C2: a diff pass changes only its own delta. In a step of the worktree    *)
(* pass every record that existed keeps its index delta, in a step of the   *)
(* index pass it keeps its worktree delta, and a record whose path the pass *)
(* did not report anew is left as it was. A path reported in both passes    *)
(* ends with the worktree report in its worktree delta and the index report *)
(* in its index delta.                                                      *)
C2_FrameStep ==
    /\ \A n \in Names :
          HasRecord(file_map, n) =>
             /\ HasRecord(file_map', n)
             /\ pc = "run_diff_files" =>
                   TheRecord(file_map', n).index = TheRecord(file_map, n).index
             /\ pc = "run_diff_index" =>
                   TheRecord(file_map', n).worktree = TheRecord(file_map, n).worktree
             /\ (\A p \in Passes : seen'[p][n] = seen[p][n]) =>
                   TheRecord(file_map', n) = TheRecord(file_map, n)
    /\ \A n \in Names :
          (Reported("run_diff_files", n)' /\ Reported("run_diff_index", n)') =>
             /\ Pair(TheRecord(file_map', n).worktree) = seen'["run_diff_files"][n]
             /\ Pair(TheRecord(file_map', n).index) = seen'["run_diff_index"][n]

C2_PhaseDeltasIndependent == [][C2_FrameStep]_vars

\* a path with different non-zero counts from the two passes, beside another record
C2_Witness ==
    /\ Collected
    /\ \E n \in Names :
          /\ HasRecord(file_map, n)
          /\ Pair(TheRecord(file_map, n).worktree) = <<3, 1>>
          /\ Pair(TheRecord(file_map, n).index) = <<0, 2>>
          /\ seen["run_diff_files"][n] = <<3, 1>>
          /\ seen["run_diff_index"][n] = <<0, 2>>
    /\ size(file_map) = 2

(* C3: last write wins within a pass: whenever a pass has reported a path,  *)
(* the record's delta for that pass is the pair of the last such report.    *)
C3_LastWriteWins ==
    \A n \in Names :
        /\ Reported("run_diff_files", n) =>
              /\ HasRecord(file_map, n)
              /\ Pair(TheRecord(file_map, n).worktree) = seen["run_diff_files"][n]
        /\ Reported("run_diff_index", n) =>
              /\ HasRecord(file_map, n)
              /\ Pair(TheRecord(file_map, n).index) = seen["run_diff_index"][n]

\* some pass has reported a path twice with different counts, and the run is over
C3_Witness ==
    /\ pc = "exit"
    /\ cache = "ok"
    /\ overwrote # {}

(* C4: the printed rows are strictly ascending by path in the byte-wise     *)
(* lexicographic order, whatever the order of insertion and iteration.      *)
C4_RowsAscending ==
    LET rows == RowsOf(out)
    IN  \A i \in 1..(Len(rows) - 1) : BytesLess(rows[i][6], rows[i + 1][6])

\* three rows have been printed, the name with the high byte among them
C4_Witness ==
    /\ pc = "exit"
    /\ Len(RowsOf(out)) = 3
    /\ RowsOf(out)[3][6] = e_acute

----------------------------------------------------------------------------
(* Vocabulary of the properties about printed cells *)

\* a printed cell without the padding of its field
RECURSIVE Unpadded(_)
Unpadded(cell) ==
    IF Len(cell) > 0 /\ Char(cell, 1) = " "
    THEN Unpadded(SubSeq(cell, 2, Len(cell)))
    ELSE cell

\* the text "+<added>/-<deleted>" of the pairs the diff engine reports here
Shown(pair) ==
    CASE pair = <<0, 0>> -> "+0/-0"
      [] pair = <<3, 1>> -> "+3/-1"
      [] pair = <<0, 2>> -> "+0/-2"

OnlyIn(pass, n) == Reported(pass, n) /\ \A p \in Passes \ {pass} : ~Reported(p, n)

StagedCell(row) == Unpadded(row[2])

WorkingCell(row) == Unpadded(row[4])

PathOf(row) == row[6]

(* C5 as stated: the row of a path reported in one pass only shows the      *)
(* sentinel in the other column and "+added/-deleted" in its own, whatever  *)
(* the counts of the report.                                                *)
C5_Original ==
    \A k \in 1..Len(RowsOf(out)) :
        LET row == RowsOf(out)[k]
            n   == PathOf(row)
        IN  /\ OnlyIn("run_diff_files", n) =>
                  /\ StagedCell(row) = "unchanged"
                  /\ WorkingCell(row) = Shown(seen["run_diff_files"][n])
            /\ OnlyIn("run_diff_index", n) =>
                  /\ WorkingCell(row) = "nothing"
                  /\ StagedCell(row) = Shown(seen["run_diff_index"][n])

(* C5 amended: the row of a path reported in one pass only shows the        *)
(* sentinel in the other column; its own column shows "+added/-deleted" of  *)
(* the last report when that report is not (0, 0), and its own sentinel     *)
(* when the report is (0, 0).                                               *)
C5_SinglePassRows ==
    \A k \in 1..Len(RowsOf(out)) :
        LET row == RowsOf(out)[k]
            n   == PathOf(row)
        IN  /\ OnlyIn("run_diff_files", n) =>
                  /\ StagedCell(row) = "unchanged"
                  /\ WorkingCell(row) =
                        IF seen["run_diff_files"][n] = <<0, 0>> THEN "nothing"
                        ELSE Shown(seen["run_diff_files"][n])
            /\ OnlyIn("run_diff_index", n) =>
                  /\ WorkingCell(row) = "nothing"
                  /\ StagedCell(row) =
                        IF seen["run_diff_index"][n] = <<0, 0>> THEN "unchanged"
                        ELSE Shown(seen["run_diff_index"][n])

\* rows are printed for a worktree-only path with deletions only, an
\* index-only path and a path whose only report was (0, 0)
C5_Witness ==
    /\ pc = "exit"
    /\ Len(RowsOf(out)) = 3
    /\ \E n \in Names : OnlyIn("run_diff_files", n) /\ seen["run_diff_files"][n] = <<0, 2>>
    /\ \E n \in Names : OnlyIn("run_diff_index", n) /\ seen["run_diff_index"][n] = <<3, 1>>
    /\ \E n \in Names, p \in Passes : OnlyIn(p, n) /\ seen[p][n] = <<0, 0>>

(* C6: in every printed row the staged cell comes before the working cell;  *)
(* the staged cell is "+added/-deleted" of the record's index delta when    *)
(* one of its counts is not 0 and "unchanged" otherwise; the working cell   *)
(* is "+added/-deleted" of the worktree delta when one of its counts is not *)
(* 0 and "nothing" otherwise.                                               *)
C6_ColumnTextRule ==
    \A k \in 1..Len(RowsOf(out)) :
        LET row == RowsOf(out)[k]
            n   == PathOf(row)
        IN  /\ HasRecord(file_map, n)
            /\ LET e == TheRecord(file_map, n)
               IN  /\ StagedCell(row) =
                         IF e.index.added # 0 \/ e.index.deleted # 0
                         THEN Shown(Pair(e.index)) ELSE "unchanged"
                   /\ WorkingCell(row) =
                         IF e.worktree.added # 0 \/ e.worktree.deleted # 0
                         THEN Shown(Pair(e.worktree)) ELSE "nothing"
                   /\ (StagedCell(row) = "unchanged") <=> (Pair(e.index) = <<0, 0>>)
                   /\ (WorkingCell(row) = "nothing") <=> (Pair(e.worktree) = <<0, 0>>)

\* one row with counts in the staged cell only, one with counts in the
\* working cell only
C6_Witness ==
    /\ pc = "exit"
    /\ \E j, k \in 1..Len(RowsOf(out)) :
          /\ StagedCell(RowsOf(out)[j]) = "+3/-1"
          /\ WorkingCell(RowsOf(out)[j]) = "nothing"
          /\ StagedCell(RowsOf(out)[k]) = "unchanged"
          /\ WorkingCell(RowsOf(out)[k]) = "+0/-2"

(* C7: when the index was loaded and the map is empty after both passes,    *)
(* the output is one blank line and nothing else.                           *)
C7_EmptyStore ==
    (cache = "ok" /\ pc \in {"return", "exit"} /\ size(file_map) = 0)
        => out = <<blank_line>>

\* a run that loaded the index and received no report has ended
C7_Witness ==
    /\ cache = "ok"
    /\ pc = "exit"
    /\ delivered = 0
    /\ size(file_map) = 0
    /\ out = << <<"\n">> >>

(* C8: when read_cache() fails, no pass runs and nothing is collected,      *)
(* nothing is written to stdout or stderr, and the exit status is 0.        *)
C8_LoadFailure ==
    cache = "failed" =>
        /\ pc \in {"return", "exit"}
        /\ out = <<>>
        /\ errout = <<>>
        /\ delivered = 0
        /\ writes = {}
        /\ file_map = EmptyBag
        /\ \A p \in Passes, n \in Names : ~Reported(p, n)
        /\ exit_status = IF pc = "exit" THEN 0 ELSE NoExit

\* a run whose read_cache() failed has exited
C8_Witness ==
    /\ cache = "failed"
    /\ pc = "exit"
    /\ exit_status = 0

(* C9: control only moves forward through: worktree pass, index pass,       *)
(* rendering. Reports reach the map only in the step of a diff pass, the    *)
(* worktree deltas are written only by the worktree pass under phase        *)
(* WORKTREE and the index deltas only by the index pass under phase INDEX,  *)
(* output is written only after both passes, and once rendering has         *)
(* started nothing is collected any more.                                   *)
Rank(p) ==
    CASE p = "git_config" -> 0
      [] p = "dispatch" -> 1
      [] p = "setup" -> 2
      [] p = "collect_changes_worktree" -> 3
      [] p = "run_diff_files" -> 4
      [] p = "collect_changes_index" -> 5
      [] p = "run_diff_index" -> 6
      [] p = "render" -> 7
      [] p = "rows" -> 8
      [] p = "return" -> 9
      [] p = "exit" -> 10

C9_Step ==
    /\ Rank(pc') >= Rank(pc)
    /\ (delivered' # delivered \/ file_map' # file_map \/ seen' # seen
            \/ writes' # writes)
          => /\ pc \in Passes
             /\ out = <<>>
             /\ pc = "run_diff_files" =>
                   /\ phase = WORKTREE
                   /\ seen'["run_diff_index"] = seen["run_diff_index"]
                   /\ \A n \in Names : ~Reported("run_diff_index", n)
             /\ pc = "run_diff_index" =>
                   /\ phase = INDEX
                   /\ seen'["run_diff_files"] = seen["run_diff_files"]
    /\ writes' \subseteq {<<"run_diff_files", "worktree">>, <<"run_diff_index", "index">>}
    /\ out' # out => pc \in {"render", "rows"}

C9_PhaseSequencing == [][C9_Step]_vars

\* both passes have written deltas and the header has been printed
C9_Witness ==
    /\ pc = "rows"
    /\ writes = {<<"run_diff_files", "worktree">>, <<"run_diff_index", "index">>}
    /\ out # <<>>

(* C10: when git_config hands add_i_config a key color.interactive.<slot>,  *)
(* slot one of prompt, header, help, error, whose value is missing or is no *)
(* color, the callback fails and the command dies with a configuration      *)
(* error before options are parsed.                                         *)
IsSlotKey(var) ==
    \E slot \in {"prompt", "header", "help", "error"} :
        var = "color.interactive." \o slot

IsColor(value) == value # NULL /\ color_parse(value).ret = 0

C10_Step ==
    (/\ pc = "git_config"
     /\ config # <<>>
     /\ IsSlotKey(Head(config)[1])
     /\ ~IsColor(Head(config)[2]))
        => /\ pc' = "exit"
           /\ exit_status' = 128
           /\ errout' # errout

C10_BadSlotColorIsAnError == [][C10_Step]_vars

----------------------------------------------------------------------------
(* Vocabulary of the properties about the command line *)

StatusFlagGiven == \E i \in 1..Len(argv) : argv[i] = "--status"

\* git_config died on an entry, before the options were looked at
ConfigDied == pc = "exit" /\ exit_status = 128

UsageText == "usage: git add-interactive--helper <command>"

(* C11: mode dispatch, for a run whose configuration was read without       *)
(* error. Without --status the command never loads the index, collects      *)
(* nothing and writes nothing to stdout, and it ends with the usage text on *)
(* stderr and exit status 129. With --status print_modified is entered, no  *)
(* usage is printed, and the command ends with exit status 0, also when no  *)
(* change was reported (the report is then the single blank line).          *)
C11_ModeDispatch ==
    /\ ~StatusFlagGiven =>
          /\ Rank(pc) \in {0, 1, 10}
          /\ cache = "unread"
          /\ delivered = 0
          /\ file_map = EmptyBag
          /\ out = <<>>
          /\ (pc = "exit" /\ ~ConfigDied) =>
                 /\ exit_status = 129
                 /\ errout = <<UsageText>>
    /\ StatusFlagGiven =>
          /\ \A i \in 1..Len(errout) : errout[i] # UsageText
          /\ (pc = "exit" /\ ~ConfigDied) =>
                 /\ exit_status = 0
                 /\ cache # "unread"
                 /\ cache = "ok" => out # <<>>
                 /\ (cache = "ok" /\ delivered = 0) => out = <<blank_line>>

\* a run with --status that loaded the index and was reported no change has
\* exited with status 0
C11_Witness ==
    /\ StatusFlagGiven
    /\ pc = "exit"
    /\ exit_status = 0
    /\ cache = "ok"
    /\ delivered = 0
    /\ mode = STATUS

----------------------------------------------------------------------------
(* C12: rendering is deterministic and read-only. The steps of rendering    *)
(* leave the map as it was: every record keeps its path and both deltas,    *)
(* and the size stays. What the rows step writes is what rendering the map  *)
(* it leaves behind writes under every order in which the iterator can      *)
(* yield the records, so a second rendering of the unmodified map repeats   *)
(* the first byte for byte.                                                 *)
C12_Step ==
    /\ pc \in {"render", "rows"} =>
          /\ file_map' = file_map
          /\ size(file_map') = size(file_map)
          /\ header_color' = header_color
    /\ pc = "rows" =>
          \A files \in snapshots(file_map') :
              out' = out \o print_rows(QSORT(files)) \o <<blank_line>>
    /\ pc = "render" =>
          out' = Append(out, IF size(file_map') < 1 THEN blank_line
                             ELSE header_line(header_color'))

C12_RenderingDeterministicReadOnly == [][C12_Step]_vars

\* three records, which the iterator can yield in six orders, were rendered
C12_Witness ==
    /\ pc = "return"
    /\ cache = "ok"
    /\ size(file_map) = 3
    /\ Cardinality(snapshots(file_map)) = 6
    /\ Len(out) = 5

----------------------------------------------------------------------------
(* Vocabulary of the properties about color *)

\* a piece of text that is a color escape sequence
IsEscape(piece) == Len(piece) >= 4 /\ SubSeq(piece, 1, 4) = "ESC["

\* a piece of text with a color escape sequence somewhere in it
HasEscape(piece) ==
    \E k \in 1..(Len(piece) - 3) : SubSeq(piece, k, k + 3) = "ESC["

IsTextPiece(piece) == ~IsEscape(piece) /\ piece # ""

\* a header line with the color escapes and the empty pieces taken out
Decolored(line) == SelectSeq(line, IsTextPiece)

IsHeader(line) == Len(line) = 9

PlainHeader ==
    <<"      ", "      staged", " ", "    unstaged", " ", "path", "\n">>

(* C13: color affects decoration only. In every report the header row with  *)
(* the color escapes taken out is the same plain header, whatever color.    *)
(* interactive and the configured colors are; every numbered row is the row *)
(* of its record and its position, with no escape in its number or cells;   *)
(* every other line is the blank line. The color is either absent or the    *)
(* configured header color, it stands in the header row only, and there it  *)
(* is closed by the reset. Two runs with the same reports therefore differ  *)
(* in the escapes of the header row at most.                                *)
C13_ColorIsDecoration ==
    \A i \in 1..Len(out) :
        LET line == out[i]
        IN  /\ IsHeader(line) =>
                  /\ i = 1
                  /\ Decolored(line) = PlainHeader
                  /\ line[2] = header_color
                  /\ line[2] \in {"", colors[COLOR_HEADER]}
                  /\ line[2] # "" => (IsEscape(line[2]) /\ use_color # 0)
                  /\ use_color = 1 => line[2] = colors[COLOR_HEADER]
                  /\ line[8] = IF line[2] # "" THEN GIT_COLOR_RESET ELSE ""
            /\ IsRow(line) =>
                  /\ i > 1
                  /\ HasRecord(file_map, PathOf(line))
                  /\ line = row_line(i - 2, TheRecord(file_map, PathOf(line)))
                  /\ \A j \in {1, 2, 3, 4, 5, 7} : ~HasEscape(line[j])
            /\ (~IsHeader(line) /\ ~IsRow(line)) => line = <<"\n">>

\* a report with two rows under a header in the configured color red
C13_Witness ==
    /\ pc = "exit"
    /\ Len(out) = 4
    /\ out[1][2] = "ESC[31m"
    /\ out[1][8] = "ESC[m"
    /\ IsRow(out[2]) /\ IsRow(out[3])

----------------------------------------------------------------------------
(* C14: the baseline of the index pass. Once get_sha1("HEAD") has been      *)
(* asked, s.reference is "HEAD" when it resolved and the hex name of the    *)
(* empty tree when it did not, and nothing else in any run. It is asked     *)
(* before the worktree pass starts: while it is unasked the reference is    *)
(* unset and no pass is under way and no report has been delivered. From    *)
(* the start of the worktree pass to the end of rendering no step changes   *)
(* the reference.                                                           *)
C14_Step ==
    /\ head' = "resolved" => reference' = "HEAD"
    /\ head' = "missing" => reference' = "4b825dc642cb6eb9a060e54bf8d69288fbee4904"
    /\ head' = "unasked" =>
          /\ reference' = ""
          /\ delivered' = 0
          /\ pc' \notin {"collect_changes_worktree", "run_diff_files",
                          "collect_changes_index", "run_diff_index",
                          "render", "rows"}
    /\ head' \in {"unasked", "resolved", "missing"}
    /\ head # "unasked" =>
          /\ reference' = reference
          /\ head' = head
    /\ pc = "run_diff_index" => reference \in {"HEAD", EMPTY_TREE_SHA1_HEX}

C14_BaselineSelection == [][C14_Step]_vars

\* HEAD did not resolve and both passes have delivered reports against the
\* empty tree
C14_Witness ==
    /\ pc = "render"
    /\ head = "missing"
    /\ reference = EMPTY_TREE_SHA1_HEX
    /\ writes = {<<"run_diff_files", "worktree">>, <<"run_diff_index", "index">>}

----------------------------------------------------------------------------
\* the delta of the record e that the pass writes
DeltaOf(e, pass) == IF pass = "run_diff_files" THEN e.worktree ELSE e.index

(* C15: records are created lazily and start from zero. A record exists     *)
(* only for a path that some report has named, a fresh record has both      *)
(* deltas (0, 0), and in every state the delta of a record for a pass is    *)
(* (0, 0) as long as that pass has not reported the path and is otherwise a *)
(* pair that the pass reported for the path (the last one).                 *)
C15_LazyZeroDefaults ==
    /\ \A e \in BagToSet(file_map) :
          /\ Observed(e.name)
          /\ \A pass \in Passes :
                /\ ~Reported(pass, e.name) => Pair(DeltaOf(e, pass)) = <<0, 0>>
                /\ Pair(DeltaOf(e, pass)) # <<0, 0>> =>
                      /\ Reported(pass, e.name)
                      /\ Pair(DeltaOf(e, pass)) = seen[pass][e.name]
                      /\ Pair(DeltaOf(e, pass)) \in Counts
    /\ \A n \in Names :
          /\ ~Observed(n) => ~HasRecord(file_map, n)
          /\ Pair(new_file_stat(n, strhash(n)).index) = <<0, 0>>
          /\ Pair(new_file_stat(n, strhash(n)).worktree) = <<0, 0>>
    /\ delivered = 0 => file_map = EmptyBag

\* the worktree pass is over: one record holds its report and a zero index
\* delta, and another path has not been named and has no record
C15_Witness ==
    /\ pc = "collect_changes_index"
    /\ \E e \in BagToSet(file_map) :
          /\ Pair(e.worktree) = <<3, 1>>
          /\ Pair(e.index) = <<0, 0>>
          /\ ~Reported("run_diff_index", e.name)
    /\ \E n \in Names : ~Observed(n) /\ ~HasRecord(file_map, n)

----------------------------------------------------------------------------
\* " %2d: " for the row numbers of the reports reached here
IndexText(i) == <<"  1: ", "  2: ", "  3: ", "  4: ", "  5: ", "  6: ">>[i]

(* C16: the shape of the report of a map that is not empty. When the run    *)
(* has rendered a map of n >= 1 records, the output is n + 2 lines: first   *)
(* the one header row, then n numbered rows, last the one blank line. The   *)
(* k-th row carries the number k, so the numbers are 1..n in order, and     *)
(* every record's path stands in exactly one row, every row showing the     *)
(* path of a record.                                                        *)
C16_ReportShape ==
    (cache = "ok" /\ pc \in {"return", "exit"} /\ size(file_map) >= 1) =>
        /\ Len(out) = size(file_map) + 2
        /\ IsHeader(out[1])
        /\ \A i \in 2..Len(out) : ~IsHeader(out[i])
        /\ out[Len(out)] = <<"\n">>
        /\ \A k \in 1..size(file_map) :
              /\ IsRow(out[k + 1])
              /\ out[k + 1][1] = IndexText(k)
              /\ out[k + 1][7] = "\n"
              /\ HasRecord(file_map, PathOf(out[k + 1]))
        /\ \A e \in BagToSet(file_map) :
              Cardinality({k \in 2..(Len(out) - 1) : PathOf(out[k]) = e.name})
                  = CopiesIn(e, file_map)

\* a map of three records has been rendered and the run has exited
C16_Witness ==
    /\ pc = "exit"
    /\ cache = "ok"
    /\ size(file_map) = 3
    /\ Len(out) = 5
    /\ out[4][1] = "  3: "

----------------------------------------------------------------------------
\* the decimal text of the counts of WideCounts
WideText(v) ==
    CASE v = <<0, 0, 0>>                     -> "0"
      [] v = <<0, 0, 7>>                     -> "7"
      [] v = <<0, 0, 999999999>>             -> "999999999"
      [] v = <<0, 1, 0>>                     -> "1000000000"
      [] v = <<0, 999999999, 999999999>>     -> "999999999999999999"
      [] v = <<1, 0, 0>>                     -> "1000000000000000000"
      [] v = <<9, 999999999, 999999999>>     -> "9999999999999999999"
      [] v = <<10, 0, 0>>                    -> "10000000000000000000"
      [] v = <<18, 446744073, 709551615>>    -> "18446744073709551615"

\* what a cell has to show in full for the delta, with its sentinel
FullCell(delta, sentinel) ==
    IF delta.added = <<0, 0, 0>> /\ delta.deleted = <<0, 0, 0>> THEN sentinel
    ELSE "+" \o WideText(delta.added) \o "/-" \o WideText(delta.deleted)

(* C17: the cell buffers never truncate. For a record whose counts lie      *)
(* anywhere up to UINTMAX_MAX (64 bits, 20 digits), each count prints in at *)
(* most 20 digits, each printed cell is the whole text "+added/-deleted" or *)
(* the whole sentinel, and that text is at most 49 characters long, one     *)
(* less than the 50 bytes of the buffer.                                    *)
C17_CellsNeverTruncate ==
    /\ \A e \in BagToSet(file_map) :
          \A v \in {e.index.added, e.index.deleted,
                    e.worktree.added, e.worktree.deleted} :
              /\ ju(v) = WideText(v)
              /\ Len(ju(v)) <= 20
    /\ \A k \in 1..Len(RowsOf(out)) :
          LET row == RowsOf(out)[k]
              e   == TheRecord(file_map, PathOf(row))
          IN  /\ StagedCell(row) = FullCell(e.index, "unchanged")
              /\ WorkingCell(row) = FullCell(e.worktree, "nothing")
              /\ Len(StagedCell(row)) <= 49
              /\ Len(WorkingCell(row)) <= 49
              /\ Len(StagedCell(row)) + 1 <= CellSize
              /\ Len(WorkingCell(row)) + 1 <= CellSize

\* the row of a record with UINTMAX_MAX in both worktree counts and an
\* unchanged index has been printed
C17_Witness ==
    /\ pc = "exit"
    /\ Len(RowsOf(out)) = 1
    /\ \E e \in BagToSet(file_map) :
          /\ e.worktree.added = UINTMAX_MAX
          /\ e.worktree.deleted = UINTMAX_MAX
          /\ IsZeroCount(e.index.added) /\ IsZeroCount(e.index.deleted)
    /\ WorkingCell(RowsOf(out)[1]) = "+18446744073709551615/-18446744073709551615"
    /\ StagedCell(RowsOf(out)[1]) = "unchanged"

====
